---- MODULE Spec2Model ----
(***************************************************************************)
(* A model of the chat hook (src/src/hooks/useChats.ts) and of the Gemini  *)
(* conversation client (src/src/utils/gemini/client.ts).                   *)
(*                                                                         *)
(* Spec       : one browser session of useChats against the store.  Every  *)
(*              query and mutation is split at its awaits: the call (with  *)
(*              its validation), the store handling the request, and the   *)
(*              response reaching the client (the rest of the function     *)
(*              and its onSuccess / onError callback).                     *)
(* SpecGemini : one run of sendMessageToGemini, one step per statement     *)
(*              group between awaits.                                      *)
(***************************************************************************)
EXTENDS Naturals, Sequences, FiniteSets, TLC

\* ------------------------------------------------------------------ bounds
\* Chat ids the store may hand out in one behaviour (c1 .. cMaxChats): the three
\* chats of the start and two new ones.
MaxChats == 5
\* Queries and mutations called in one behaviour.
MaxOps == 2
\* Messages in the history given to sendMessageToGemini.
MaxMessages == 3

VARIABLES
    userId,     \* useUser().userId of the session (NoUser when signed out)
    files,      \* store table "files": rows [id, user_id]
    chats,      \* store table "chats": rows [id, user_id, file_id, title, created_at]
    nextId,     \* the store's next primary key / creation timestamp
    listCache,  \* query cache entry ["chats"]
    single,     \* query cache entries ["chats", id]
    ops,        \* every query / mutation called so far, in call order
    redirects   \* router.push("/login") calls so far

chatVars == <<userId, files, chats, nextId, listCache, single, ops, redirects>>

VARIABLES
    deletingId, \* useState<string | null>(null) of useChats
    handled     \* the delete calls (their places in ops) made by handleDeleteChat

deleteVars == <<deletingId, handled>>

VARIABLES
    API_KEY,      \* process.env.GEMINI_API_KEY || ""
    messages,     \* the arguments of sendMessageToGemini
    fileContent,
    imageData,
    pc,           \* where the run of sendMessageToGemini is
    chat,         \* the chat session of the run, once created
    systemPrompt, \* let systemPrompt
    idx,          \* let i of the replay loop
    calls,        \* the chat.sendMessage calls made, in order
    replies,      \* the replies received (response.text()), in order
    result        \* the string returned

geminiVars == <<API_KEY, messages, fileContent, imageData, pc, chat, systemPrompt,
                idx, calls, replies, result>>

\* ------------------------------------------------------------------ values
NoUser == ""
Absent == "absent"      \* a property that is not in an object (undefined)
Null == "null"          \* SQL NULL / JS null
Users == {"u1", "u2"}
ChatId(n) == "c" \o ToString(n)
\* An id the store never hands out.
MissingId == "c0"
ChatIds == {ChatId(n) : n \in 1..(MaxChats + 1)} \cup {MissingId}

\* Arguments the callers pass.
\* c1: a chat of the caller; c3: a chat of another user; c0: no row; "": no
\* id.  The caller learns the id of a new chat from the mutation that made it.
FixedChatIdInputs == {ChatId(1), ChatId(3), MissingId, ""}
\* f1: a file of the caller; f2: a file of another user; f3: no row; " ": blank.
FileIdInputs == {"f1", "f2", "f3", " "}
NoData == [title |-> Absent, file_id |-> Absent, user_id |-> Absent]
DataInputs ==
    { NoData,
      [NoData EXCEPT !.title = "t2"],
      [NoData EXCEPT !.title = "t3"],
      [NoData EXCEPT !.file_id = "f2"],
      [NoData EXCEPT !.file_id = "f3"],
      [NoData EXCEPT !.user_id = "u2"] }
\* (chat id, data) of the update calls: every data on the caller's chat, one
\* valid data on every other id.

NoError == [code |-> "", message |-> ""]
NoErr == [code |-> "", message |-> "", isChat |-> FALSE]
NoResp == [data |-> <<>>, error |-> NoError]

\* String.prototype.includes
Includes(s, sub) ==
    \E i \in 1..(Len(s) + 1) :
        /\ i + Len(sub) - 1 <= Len(s)
        /\ SubSeq(s, i, i + Len(sub) - 1) = sub

\* String.prototype.trim, on the file ids above (blank or without blanks).
Trim(s) == IF s = " " THEN "" ELSE s

\* ------------------------------------------------------- chat-utils (spec)
createChatError(message, code) == [code |-> code, message |-> message, isChat |-> TRUE]
isChatError(e) == e.isChat
validateChatId(id) == id # ""
validateData(data) == \E k \in DOMAIN data : data[k] # Absent
getErrorFromSupabaseError(error) ==
    createChatError(error.message,
        IF Includes(error.message, "JWT expired") THEN "AUTH_EXPIRED"
        ELSE IF Includes(error.message, "Failed to fetch") THEN "NETWORK_ERROR"
        ELSE error.code)

\* ------------------------------------------------------------------- store
\* What "*" selects of a chat row, and what "*, files(*)" adds to it: the
\* referenced files row, named by its id (the files table never changes).
Plain(r) ==
    [id |-> r.id, user_id |-> r.user_id, file_id |-> r.file_id,
     title |-> r.title, created_at |-> r.created_at, files |-> Absent]
WithFiles(r, fs) ==
    [Plain(r) EXCEPT !.files =
        IF \E f \in fs : f.id = r.file_id THEN r.file_id ELSE Null]

RECURSIVE OrderDesc(_)
\* .order("created_at", { ascending: false })
OrderDesc(rows) ==
    IF rows = {} THEN <<>>
    ELSE LET top == CHOOSE r \in rows : \A q \in rows : q.created_at <= r.created_at
         IN <<top>> \o OrderDesc(rows \ {top})

\* .single(): exactly one row, or the error PGRST116.
Single(rows) ==
    IF Cardinality(rows) = 1
    THEN [data |-> <<CHOOSE r \in rows : TRUE>>, error |-> NoError]
    ELSE [data |-> <<>>, error |-> [code |-> "PGRST116", message |-> "no single row"]]

\* .maybeSingle(): no row is not an error.
MaybeSingle(rows) ==
    IF Cardinality(rows) <= 1
    THEN [data |-> IF rows = {} THEN <<>> ELSE <<CHOOSE r \in rows : TRUE>>,
          error |-> NoError]
    ELSE [data |-> <<>>, error |-> [code |-> "PGRST116", message |-> "several rows"]]

\* The foreign key chats.file_id -> files.id.
FkOk(fileId, fs) == fileId = Null \/ \E f \in fs : f.id = fileId

\* from("chats").select("*, files(*)").eq("user_id", userId).order(...)
SelectChats(cs, fs, uid) ==
    [data |-> OrderDesc({WithFiles(r, fs) : r \in {q \in cs : q.user_id = uid}}),
     error |-> NoError]

\* SelectChat without .eq("user_id", userId).
SelectChatOfAnyUser(cs, fs, uid, chatId) ==
    Single({WithFiles(r, fs) : r \in {q \in cs : q.id = chatId}})

\* from("chats").select("*, files(*)").eq("id", chatId).eq("user_id", userId).single()
SelectChat(cs, fs, uid, chatId) ==
    Single({WithFiles(r, fs) : r \in {q \in cs : q.id = chatId /\ q.user_id = uid}})

\* from("files").select("id, user_id").eq("id", fileId).maybeSingle()
SelectFile(fs, fileId) == MaybeSingle({f \in fs : f.id = fileId})

\* const newChat = { ...chatData, user_id: userId }; the store adds the
\* primary key and the creation timestamp.
NewChat(chatData, uid, n) ==
    [id |-> ChatId(n), user_id |-> uid,
     file_id |-> IF chatData.file_id = Absent THEN Null ELSE chatData.file_id,
     title |-> IF chatData.title = Absent THEN Null ELSE chatData.title,
     created_at |-> n]

\* The rows .update(chatData).eq("id", chatId).eq("user_id", userId) touches.
UpdateMatches(cs, uid, chatId) == {q \in cs : q.id = chatId /\ q.user_id = uid}

\* .update(chatData): the columns present in chatData are set.
Updated(r, chatData) ==
    [r EXCEPT !.title = IF chatData.title = Absent THEN @ ELSE chatData.title,
              !.file_id = IF chatData.file_id = Absent THEN @ ELSE chatData.file_id,
              !.user_id = IF chatData.user_id = Absent THEN @ ELSE chatData.user_id]

\* DeleteMatches without .eq("user_id", userId).
DeleteMatchesOfAnyUser(cs, uid, chatId) == {q \in cs : q.id = chatId}

\* The rows .delete().eq("id", chatId).eq("user_id", userId) removes.
DeleteMatches(cs, uid, chatId) == {q \in cs : q.id = chatId /\ q.user_id = uid}

FkError == [code |-> "23503", message |-> "violates foreign key constraint"]

\* from("chats").insert(newChat).select().single(): the table and the
\* response after it.
InsertChat(cs, fs, uid, chatData, n) ==
    LET row == NewChat(chatData, uid, n)
    IN IF FkOk(row.file_id, fs)
       THEN [chats |-> cs \cup {row}, resp |-> Single({Plain(row)})]
       ELSE [chats |-> cs, resp |-> [data |-> <<>>, error |-> FkError]]

\* from("chats").update(chatData).eq("id", chatId).eq("user_id", userId)
\*     .select().single(): the table and the response after it.
UpdateChat(cs, fs, uid, chatId, chatData) ==
    LET hit == UpdateMatches(cs, uid, chatId)
        new == {Updated(r, chatData) : r \in hit}
    IN IF \A r \in new : FkOk(r.file_id, fs)
       THEN [chats |-> (cs \ hit) \cup new, resp |-> Single({Plain(r) : r \in new})]
       ELSE [chats |-> cs, resp |-> [data |-> <<>>, error |-> FkError]]

\* from("chats").delete().eq("id", chatId).eq("user_id", userId): the table
\* and the response after it.
DeleteChat(cs, uid, chatId) ==
    [chats |-> cs \ DeleteMatches(cs, uid, chatId),
     resp |-> [data |-> <<>>, error |-> [code |-> "", message |-> ""]]]

\* ------------------------------------------------------------------- cache
NoEntry == [present |-> FALSE, data |-> <<>>]
Entry(d) == [present |-> TRUE, data |-> d]

\* addChatToCache: (oldData) => [newChat, ...(oldData || [])]
addChatToCache(list, newChat) == Entry(<<newChat>> \o list.data)

\* updateChatInList that prepends the chat, as addChatToCache does, instead
\* of replacing the element with its id.
updateChatInListPrepending(list, updatedChat) == Entry(<<updatedChat>> \o list.data)

\* updateChatInCache, the list part: [updatedChat] without a list, else map.
updateChatInList(list, updatedChat) ==
    IF ~list.present THEN Entry(<<updatedChat>>)
    ELSE Entry([k \in 1..Len(list.data) |->
                  IF list.data[k].id = updatedChat.id THEN updatedChat ELSE list.data[k]])

\* updateChatInCache, the single-item part: setQueryData([...KEY, id], chat).
updateChatInSingle(s, updatedChat) ==
    [s EXCEPT ![updatedChat.id] = Entry(<<updatedChat>>)]

\* removeChatFromList with the filter turned round (chat.id === chatId).
removeChatFromListInverted(list, chatId) ==
    LET keep(c) == c.id = chatId IN Entry(SelectSeq(list.data, keep))

\* removeChatFromCache, the list part: oldData?.filter(...) || []
removeChatFromList(list, chatId) ==
    LET keep(c) == c.id # chatId IN Entry(SelectSeq(list.data, keep))

\* removeChatFromCache, the single-item part: removeQueries({queryKey}).
removeChatFromSingle(s, chatId) == [s EXCEPT ![chatId] = NoEntry]

\* ------------------------------------------------------------ error handler
\* handleError: TRUE when it calls router.push("/login").
handleErrorRedirects(e) ==
    /\ ~isChatError(e)
    /\ \/ Includes(e.message, "JWT expired")
       \/ Includes(e.message, "refresh_token_not_found")
       \/ Includes(e.message, "Authentication required")

\* validateUserAuth: the error it throws, or NoErr.
validateUserAuth(uid) ==
    IF uid = NoUser THEN createChatError("User not authenticated", "NO_USER_ID") ELSE NoErr

\* The first of the errors a, b that is one.
Or(a, b) == IF a # NoErr THEN a ELSE b

\* --------------------------------------------------------------- the calls
Final == {"success", "error", "cancelled"}
Pending(o) == o.phase \notin Final

ChatIdInputs ==
    FixedChatIdInputs \cup
        {ops[i].resp.data[1].id : i \in {k \in 1..Len(ops) :
              ops[k].kind \in {"start", "create"} /\ ops[k].phase = "success"}}
\* (chat id, data) of the update calls: every data on the caller's chat, one
\* valid data on every other id.
UpdateInputs ==
    {<<ChatId(1), d>> : d \in DataInputs}
        \cup {<<c, [NoData EXCEPT !.title = "t2"]>> : c \in ChatIdInputs}
\* Inserts still to come from the calls under way.
InsertsUnderWay ==
    Cardinality({i \in 1..Len(ops) : ops[i].kind \in {"start", "create"} /\ Pending(ops[i])})

\* A call: its record, in flight when its validation passed (preErr = NoErr),
\* else failed on the spot, its error given to handleError.
Call(kind, chatId, fileId, data, preErr, isWrite) ==
    /\ Len(ops) < MaxOps
    /\ ops' = Append(ops,
          [kind |-> kind, chatId |-> chatId, fileId |-> fileId, data |-> data,
           phase |-> IF preErr = NoErr THEN "sent" ELSE "error",
           resp |-> NoResp, err |-> preErr,
           reqs |-> IF preErr = NoErr THEN 1 ELSE 0,
           writes |-> IF preErr = NoErr /\ isWrite THEN 1 ELSE 0])
    /\ redirects' = redirects + (IF preErr # NoErr /\ handleErrorRedirects(preErr) THEN 1 ELSE 0)
    /\ UNCHANGED <<userId, files, chats, nextId, listCache, single>>

\* chatsQuery.queryFn up to its await.
chatsQueryFn ==
    /\ \A i \in 1..Len(ops) : ~(ops[i].kind = "fetchList" /\ Pending(ops[i]))
    /\ Call("fetchList", "", "", NoData, validateUserAuth(userId), FALSE)

\* singleChatQuery.queryFn up to its await.
singleChatQueryFn(chatId) ==
    /\ \A i \in 1..Len(ops) :
          ~(ops[i].kind = "fetchOne" /\ ops[i].chatId = chatId /\ Pending(ops[i]))
    /\ Call("fetchOne", chatId, "", NoData,
            Or(validateUserAuth(userId),
               IF ~validateChatId(chatId)
               THEN createChatError("Invalid chat ID provided", "INVALID_CHAT_ID")
               ELSE NoErr),
            FALSE)

\* startChatWithFile that knows the files table and raises the ownership
\* errors on the spot, without a request.
startChatWithFileCheckingLocally(fileId) ==
    /\ nextId + InsertsUnderWay <= MaxChats
    /\ Call("start", "", fileId, NoData,
            Or(validateUserAuth(userId),
               IF Trim(fileId) = ""
               THEN createChatError("Valid file ID is required", "INVALID_FILE_ID")
               ELSE IF \A f \in files : f.id # fileId
                    THEN createChatError("File not found", "FILE_NOT_FOUND")
               ELSE IF \E f \in files : f.id = fileId /\ f.user_id # userId
                    THEN createChatError("File access denied", "FILE_ACCESS_DENIED")
               ELSE NoErr),
            FALSE)

\* startChatWithFileMutation.mutationFn up to its first await.
startChatWithFile(fileId) ==
    /\ nextId + InsertsUnderWay <= MaxChats
    /\ Call("start", "", fileId, NoData,
            Or(validateUserAuth(userId),
               IF Trim(fileId) = ""
               THEN createChatError("Valid file ID is required", "INVALID_FILE_ID")
               ELSE NoErr),
            FALSE)

\* createChatMutation.mutationFn up to its await.
createChat(chatData) ==
    /\ nextId + InsertsUnderWay <= MaxChats
    /\ Call("create", "", "", chatData,
            Or(validateUserAuth(userId),
               IF ~validateData(chatData)
               THEN createChatError("Invalid chat data", "INVALID_DATA")
               ELSE NoErr),
            TRUE)

\* updateChat that sends the request before it validates.
updateChatSendingFirst(chatId, chatData) ==
    /\ Len(ops) < MaxOps
    /\ Call("update", chatId, "", chatData, NoErr, TRUE)

\* updateChatMutation.mutationFn up to its await.
updateChat(chatId, chatData) ==
    /\ Len(ops) < MaxOps
    /\ Call("update", chatId, "", chatData,
         Or(validateUserAuth(userId),
            Or(IF ~validateChatId(chatId)
               THEN createChatError("Valid chat ID is required", "INVALID_CHAT_ID")
               ELSE NoErr,
               IF ~validateData(chatData)
               THEN createChatError("Invalid chat data", "INVALID_DATA")
               ELSE NoErr)),
         TRUE)

\* deleteChatMutation.mutationFn up to its await.
deleteChat(chatId) ==
    /\ Len(ops) < MaxOps
    /\ Call("delete", chatId, "", NoData,
         Or(validateUserAuth(userId),
            IF ~validateChatId(chatId)
            THEN createChatError("Valid chat ID is required", "INVALID_CHAT_ID")
            ELSE NoErr),
         TRUE)

\* ------------------------------------------------- the store at a request
StoreErrors ==
    { [code |-> "", message |-> "TypeError: Failed to fetch"],
      [code |-> "PGRST301", message |-> "JWT expired"] }
Sent(i, kind) == i \in 1..Len(ops) /\ ops[i].kind = kind /\ ops[i].phase = "sent"
Reply(i, resp) == ops' = [ops EXCEPT ![i].resp = resp, ![i].phase = "replied"]

\* The request is lost or refused: nothing is read or written.
StoreFail(i, e) ==
    /\ i \in 1..Len(ops) /\ ops[i].phase = "sent"
    /\ Reply(i, [data |-> <<>>, error |-> e])
    /\ UNCHANGED <<userId, files, chats, nextId, listCache, single, redirects>>

StoreSelectChats(i) ==
    /\ Sent(i, "fetchList")
    /\ Reply(i, SelectChats(chats, files, userId))
    /\ UNCHANGED <<userId, files, chats, nextId, listCache, single, redirects>>

StoreSelectChat(i) ==
    /\ Sent(i, "fetchOne")
    /\ Reply(i, SelectChat(chats, files, userId, ops[i].chatId))
    /\ UNCHANGED <<userId, files, chats, nextId, listCache, single, redirects>>

StoreSelectFile(i) ==
    /\ Sent(i, "start")
    /\ Reply(i, SelectFile(files, ops[i].fileId))
    /\ UNCHANGED <<userId, files, chats, nextId, listCache, single, redirects>>

StoreInsert(i) ==
    /\ Sent(i, "create")
    /\ LET done == InsertChat(chats, files, userId, ops[i].data, nextId)
       IN /\ chats' = done.chats
          /\ nextId' = IF done.resp.error = NoError THEN nextId + 1 ELSE nextId
          /\ Reply(i, done.resp)
    /\ UNCHANGED <<userId, files, listCache, single, redirects>>

StoreUpdate(i) ==
    /\ Sent(i, "update")
    /\ LET done == UpdateChat(chats, files, userId, ops[i].chatId, ops[i].data)
       IN /\ chats' = done.chats
          /\ Reply(i, done.resp)
    /\ UNCHANGED <<userId, files, nextId, listCache, single, redirects>>

StoreDelete(i) ==
    /\ Sent(i, "delete")
    /\ LET done == DeleteChat(chats, userId, ops[i].chatId)
       IN /\ chats' = done.chats
          /\ Reply(i, done.resp)
    /\ UNCHANGED <<userId, files, nextId, listCache, single, redirects>>

\* createChatWithGemini(fileId, userId), the server action (utils/gemini/actions):
\* it creates the chat that references the file and returns it.
createChatWithGemini(i) ==
    /\ i \in 1..Len(ops) /\ ops[i].kind = "start" /\ ops[i].phase = "sent2"
    /\ LET row == NewChat([NoData EXCEPT !.file_id = ops[i].fileId], userId, nextId)
       IN /\ chats' = chats \cup {row}
          /\ nextId' = nextId + 1
          /\ ops' = [ops EXCEPT ![i].resp = [data |-> <<Plain(row)>>, error |-> NoError],
                                ![i].phase = "replied2"]
    /\ UNCHANGED <<userId, files, listCache, single, redirects>>

\* The server action throws (a plain Error), or returns nothing.
ServerErrors ==
    { NoError,
      [code |-> "", message |-> "Authentication required"] }
createChatWithGeminiFails(i, e) ==
    /\ i \in 1..Len(ops) /\ ops[i].kind = "start" /\ ops[i].phase = "sent2"
    /\ ops' = [ops EXCEPT ![i].resp = [data |-> <<>>, error |-> e], ![i].phase = "replied2"]
    /\ UNCHANGED <<userId, files, chats, nextId, listCache, single, redirects>>

\* ------------------------------------------------ the response, at the client
Replied(i, kind) == i \in 1..Len(ops) /\ ops[i].kind = kind /\ ops[i].phase = "replied"

\* How a call ends: with the error e thrown (given to handleError by onError
\* or throwOnError), or in success.
Finish(i, e) ==
    /\ ops' = [ops EXCEPT ![i].phase = IF e = NoErr THEN "success" ELSE "error",
                          ![i].err = e]
    /\ redirects' = redirects + (IF e # NoErr /\ handleErrorRedirects(e) THEN 1 ELSE 0)

\* What a queryFn / mutationFn throws on a store error, if anything.
thrownFor(resp) ==
    IF resp.error # NoError THEN getErrorFromSupabaseError(resp.error) ELSE NoErr

\* chatsQuery.queryFn after its await; the data becomes the list cache.
chatsQueryDone(i) ==
    /\ Replied(i, "fetchList")
    /\ Finish(i, thrownFor(ops[i].resp))
    /\ listCache' = IF ops[i].resp.error = NoError THEN Entry(ops[i].resp.data) ELSE listCache
    /\ UNCHANGED <<userId, files, chats, nextId, single>>

\* singleChatQuery.queryFn after its await: PGRST116 is "return null".
singleChatError(resp) ==
    IF resp.error # NoError /\ resp.error.code # "PGRST116"
    THEN getErrorFromSupabaseError(resp.error) ELSE NoErr
singleChatData(resp) == IF resp.error # NoError THEN <<>> ELSE resp.data

singleChatQueryDone(i) ==
    /\ Replied(i, "fetchOne")
    /\ Finish(i, singleChatError(ops[i].resp))
    /\ single' = IF singleChatError(ops[i].resp) = NoErr
                 THEN [single EXCEPT ![ops[i].chatId] = Entry(singleChatData(ops[i].resp))]
                 ELSE single
    /\ UNCHANGED <<userId, files, chats, nextId, listCache>>

\* fileCheckError without the comparison of fileCheck.user_id with userId.
fileCheckErrorWithoutOwner(resp, uid) ==
    IF resp.error # NoError THEN getErrorFromSupabaseError(resp.error)
    ELSE IF resp.data = <<>> THEN createChatError("File not found", "FILE_NOT_FOUND")
    ELSE NoErr

\* startChatWithFileMutation.mutationFn between its awaits: what the file
\* check throws, or NoErr.
fileCheckError(resp, uid) ==
    IF resp.error # NoError THEN getErrorFromSupabaseError(resp.error)
    ELSE IF resp.data = <<>> THEN createChatError("File not found", "FILE_NOT_FOUND")
    ELSE IF resp.data[1].user_id # uid
         THEN createChatError("File access denied", "FILE_ACCESS_DENIED")
    ELSE NoErr

startChatFileChecked(i) ==
    /\ Replied(i, "start")
    /\ LET e == fileCheckError(ops[i].resp, userId)
       IN IF e = NoErr
          THEN /\ ops' = [ops EXCEPT ![i].phase = "sent2", ![i].resp = NoResp,
                                     ![i].reqs = @ + 1, ![i].writes = @ + 1]
               /\ UNCHANGED redirects
          ELSE Finish(i, e)
    /\ UNCHANGED <<userId, files, chats, nextId, listCache, single>>

\* startChatWithFileMutation.mutationFn after createChatWithGemini, and
\* onSuccess: addChatToCache.
startChatError(resp) ==
    IF resp.error # NoError
    THEN [code |-> resp.error.code, message |-> resp.error.message, isChat |-> FALSE]
    ELSE IF resp.data = <<>>
         THEN createChatError("Failed to create chat - invalid response", "INVALID_CHAT_RESPONSE")
    ELSE NoErr

startChatDone(i) ==
    /\ i \in 1..Len(ops) /\ ops[i].kind = "start" /\ ops[i].phase = "replied2"
    /\ Finish(i, startChatError(ops[i].resp))
    /\ listCache' = IF startChatError(ops[i].resp) = NoErr
                    THEN addChatToCache(listCache, ops[i].resp.data[1])
                    ELSE listCache
    /\ UNCHANGED <<userId, files, chats, nextId, single>>

\* createChatMutation.mutationFn after its await, and onSuccess: addChatToCache.
createChatError2(resp) ==
    IF resp.error # NoError THEN getErrorFromSupabaseError(resp.error)
    ELSE IF resp.data = <<>>
         THEN createChatError("No data returned from chat creation", "NO_DATA_RETURNED")
    ELSE NoErr

createChatDone(i) ==
    /\ Replied(i, "create")
    /\ Finish(i, createChatError2(ops[i].resp))
    /\ listCache' = IF createChatError2(ops[i].resp) = NoErr
                    THEN addChatToCache(listCache, ops[i].resp.data[1])
                    ELSE listCache
    /\ UNCHANGED <<userId, files, chats, nextId, single>>

\* updateChatMutation.mutationFn after its await, and onSuccess: updateChatInCache.
updateChatError(resp) ==
    IF resp.error # NoError THEN getErrorFromSupabaseError(resp.error)
    ELSE IF resp.data = <<>>
         THEN createChatError("Chat not found or access denied", "CHAT_NOT_FOUND")
    ELSE NoErr

updateChatDone(i) ==
    /\ Replied(i, "update")
    /\ Finish(i, updateChatError(ops[i].resp))
    /\ IF updateChatError(ops[i].resp) = NoErr
       THEN /\ single' = updateChatInSingle(single, ops[i].resp.data[1])
            /\ listCache' = updateChatInList(listCache, ops[i].resp.data[1])
       ELSE UNCHANGED <<single, listCache>>
    /\ UNCHANGED <<userId, files, chats, nextId>>

\* deleteChatDone that takes the chat out of the cache whether the delete
\* succeeded or failed.
deleteChatDoneRemovingAnyway(i) ==
    /\ Replied(i, "delete")
    /\ Finish(i, thrownFor(ops[i].resp))
    /\ single' = removeChatFromSingle(single, ops[i].chatId)
    /\ listCache' = removeChatFromList(listCache, ops[i].chatId)
    /\ UNCHANGED <<userId, files, chats, nextId>>

\* deleteChatMutation.mutationFn after its await, and onSuccess:
\* removeChatFromCache.  removeQueries drops the query ["chats", chatId] with
\* the fetch it has under way, whose result is then never stored.
deleteChatDone(i) ==
    /\ Replied(i, "delete")
    /\ LET e == thrownFor(ops[i].resp)
           c == ops[i].chatId
       IN IF e = NoErr
          THEN /\ ops' = [k \in 1..Len(ops) |->
                            IF k = i THEN [ops[k] EXCEPT !.phase = "success"]
                            ELSE IF ops[k].kind = "fetchOne" /\ ops[k].chatId = c
                                    /\ Pending(ops[k])
                                 THEN [ops[k] EXCEPT !.phase = "cancelled"]
                            ELSE ops[k]]
               /\ single' = removeChatFromSingle(single, c)
               /\ listCache' = removeChatFromList(listCache, c)
               /\ UNCHANGED redirects
          ELSE /\ Finish(i, e)
               /\ UNCHANGED <<single, listCache>>
    /\ UNCHANGED <<userId, files, chats, nextId>>

\* --------------------------------------------------------- helper functions
\* getChatById: queryClient.getQueryData([...CHATS_QUERY_KEY, targetChatId]),
\* the chat as a sequence of one element, <<>> for undefined or null.
cachedChat(targetChatId) ==
    IF single[targetChatId].present THEN single[targetChatId].data ELSE <<>>

\* getChatById: chatsQuery.data?.find((chat) => chat?.id === targetChatId)
findInChatsQueryData(targetChatId) ==
    LET hits == {k \in 1..Len(listCache.data) : listCache.data[k].id = targetChatId}
    IN IF hits = {} THEN <<>>
       ELSE <<listCache.data[CHOOSE k \in hits : \A l \in hits : k <= l]>>

\* getChatById: the chat, or <<>> for undefined.
getChatById(targetChatId) ==
    IF ~validateChatId(targetChatId) THEN <<>>
    ELSE IF cachedChat(targetChatId) # <<>> THEN cachedChat(targetChatId)
    ELSE findInChatsQueryData(targetChatId)

\* handleDeleteChat up to its await: setDeletingId(chatId), then the delete
\* mutation is called.  With an invalid id it throws before either.  When the
\* mutation fails at its validation the finally block runs before anything
\* else can happen.
handleDeleteChat(chatId) ==
    /\ validateChatId(chatId)
    /\ deleteChat(chatId)
    /\ handled' = handled \cup {Len(ops) + 1}
    /\ deletingId' = IF validateUserAuth(userId) = NoErr THEN chatId ELSE Null

\* handleDeleteChat after its await: finally { setDeletingId(null) }, when
\* the delete that ends was called by handleDeleteChat.
handleDeleteChatFinally(i) ==
    /\ deletingId' = IF i \in handled THEN Null ELSE deletingId
    /\ UNCHANGED handled

DeleteIdle == deletingId = Null /\ handled = {}

\* ------------------------------------------------------- the specification
InitFiles == {[id |-> "f1", user_id |-> "u1"], [id |-> "f2", user_id |-> "u2"]}
InitChats ==
    { [id |-> ChatId(1), user_id |-> "u1", file_id |-> "f1", title |-> "t1", created_at |-> 1],
      [id |-> ChatId(2), user_id |-> "u1", file_id |-> Null, title |-> "t1", created_at |-> 2],
      [id |-> ChatId(3), user_id |-> "u2", file_id |-> "f2", title |-> "t1", created_at |-> 3] }
NumInitChats == Cardinality(InitChats)

ChatInit ==
    /\ userId \in {"u1", NoUser}
    /\ files = InitFiles
    /\ chats = InitChats
    /\ nextId = NumInitChats + 1
    \* The queries have not run yet, or (signed in) have run on this store.
    /\ listCache \in {NoEntry} \cup
          (IF userId = NoUser THEN {} ELSE {Entry(SelectChats(chats, files, userId).data)})
    /\ single \in {[c \in ChatIds |-> NoEntry]} \cup
          (IF userId = NoUser THEN {}
           ELSE {[c \in ChatIds |->
                    IF c = ChatId(1)
                    THEN Entry(SelectChat(chats, files, userId, c).data) ELSE NoEntry]})
    /\ ops = <<>>
    /\ redirects = 0

\* ------------------------------------------------ sendMessageToGemini
MessageInputs ==
    { [role |-> "user", content |-> "A"],
      [role |-> "model", content |-> "B"],
      [role |-> "user", content |-> "C"],
      [role |-> "model", content |-> "A"],
      [role |-> "user", content |-> "summarise the YouTube video"] }
RECURSIVE SeqsUpTo(_, _)
SeqsUpTo(S, n) ==
    IF n = 0 THEN {<<>>}
    ELSE LET shorter == SeqsUpTo(S, n - 1)
         IN shorter \cup {Append(q, x) : q \in shorter, x \in S}
FileContentInputs == {Absent, "", "IMAGE_FILE", "YOUTUBE_TRANSCRIPT", "text of the document"}
ImageDataInputs == {[buffer |-> Absent, mimeType |-> Absent],
                    [buffer |-> "png bytes", mimeType |-> "image/png"]}
NoImage == [buffer |-> Absent, mimeType |-> Absent]

\* JS truthiness of an optional string / object argument.
Truthy(x) == x # Absent /\ x # ""
\* Buffer.prototype.toString("base64")
Base64(buffer) == "base64(" \o buffer \o ")"

\* isGeminiConfigured that takes the key for granted.
isGeminiConfiguredAlways == TRUE

isGeminiConfigured == API_KEY # ""

\* youtube-utils / query-utils: the instruction text built around the content.
createYoutubeSystemPrompt(content) == "youtube instructions: " \o content
createRagSystemPrompt(content) == "document instructions: " \o content

\* The parts of one chat.sendMessage call.
TextPart(t) == [text |-> t, inlineData |-> NoImage]
ImagePart(img) ==
    [text |-> Absent, inlineData |-> [buffer |-> Base64(img.buffer), mimeType |-> img.mimeType]]
SystemParts(prompt) ==
    <<TextPart("I need you to act as a document assistant with the following instructions: "
               \o prompt)>>
FinalParts(msg, img) ==
    IF img # NoImage THEN <<TextPart(msg.content), ImagePart(img)>>
    ELSE <<TextPart(msg.content)>>

\* The catch block: the reply string built around the error message.
ErrorReply(message) ==
    "I'm sorry, I encountered an error while processing your request. " \o message
TypeErrorMessage == "Cannot read properties of undefined (reading 'content')"
SendErrorMessage == "fetch failed"
\* response.text() of the n-th call of the session.
ReplyText(n) == "reply " \o ToString(n)

\* ChooseSystemPrompt with the YouTube test before the IMAGE_FILE test.
ChooseSystemPromptYoutubeFirst(msgs, content) ==
    IF content = "YOUTUBE_TRANSCRIPT" THEN createYoutubeSystemPrompt(content)
    ELSE IF msgs = <<>> THEN Absent
    ELSE IF Includes(msgs[Len(msgs)].content, "YouTube")
         THEN createYoutubeSystemPrompt(content)
    ELSE IF content = "IMAGE_FILE" THEN ""
    ELSE createRagSystemPrompt(content)

\* let systemPrompt after the if / else if / else on fileContent; Absent when
\* reading messages[messages.length - 1].content throws.
ChooseSystemPrompt(msgs, content) ==
    IF content = "IMAGE_FILE" THEN ""
    ELSE IF content = "YOUTUBE_TRANSCRIPT" THEN createYoutubeSystemPrompt(content)
    ELSE IF msgs = <<>> THEN Absent
    ELSE IF Includes(msgs[Len(msgs)].content, "YouTube")
         THEN createYoutubeSystemPrompt(content)
    ELSE createRagSystemPrompt(content)

\* Throw whose reply leaves the error message out.
ThrowWithoutMessage(message) ==
    /\ pc' = "done"
    /\ result' = ErrorReply("")
    /\ UNCHANGED <<calls, idx>>

\* throw inside the try: the catch block returns the reply built around the
\* message.
Throw(message) ==
    /\ pc' = "done"
    /\ result' = ErrorReply(message)
    /\ UNCHANGED <<calls, idx>>

Send(kind, k, parts, at) ==
    /\ calls' = Append(calls, [kind |-> kind, index |-> k, parts |-> parts])
    /\ pc' = at
    /\ UNCHANGED result

\* The final turn: const lastUserMessage = messages[messages.length - 1] and
\* the send with or without the image.
SendFinal ==
    IF messages = <<>> THEN Throw(TypeErrorMessage)
    ELSE /\ Send("final", Len(messages) - 1, FinalParts(messages[Len(messages)], imageData),
                 "awaitFinal")
         /\ UNCHANGED idx

\* SendReplayFrom with the loop bound i < messages.length.
SendReplayFromToTheEnd(k) ==
    IF Len(messages) > 1 /\ k < Len(messages)
    THEN /\ Send("replay", k, <<TextPart(messages[k + 1].content)>>, "awaitReplay")
         /\ idx' = k
    ELSE SendFinal

\* SendReplayFrom that walks the earlier messages from the newest to the oldest.
SendReplayFromNewestFirst(k) ==
    IF Len(messages) > 1 /\ k < Len(messages) - 1
    THEN /\ Send("replay", k, <<TextPart(messages[Len(messages) - 1 - k].content)>>,
                 "awaitReplay")
         /\ idx' = k
    ELSE SendFinal

\* The replay loop from i = k: the next replay turn, or the final turn.
SendReplayFrom(k) ==
    IF Len(messages) > 1 /\ k < Len(messages) - 1
    THEN /\ Send("replay", k, <<TextPart(messages[k + 1].content)>>, "awaitReplay")
         /\ idx' = k
    ELSE SendFinal

\* sendMessageToGemini up to its first await, or to its return.
sendMessageToGemini ==
    /\ pc = "start"
    /\ IF ~isGeminiConfigured
       THEN /\ Throw("Gemini API key is not configured")
            /\ UNCHANGED <<chat, systemPrompt>>
       ELSE /\ chat' = "session"
            /\ IF Truthy(fileContent)
               THEN LET prompt == ChooseSystemPrompt(messages, fileContent)
                    IN IF prompt = Absent
                       THEN Throw(TypeErrorMessage) /\ UNCHANGED systemPrompt
                       ELSE /\ systemPrompt' = prompt
                            /\ IF prompt # ""
                               THEN /\ Send("system", 0, SystemParts(prompt), "awaitSystem")
                                    /\ UNCHANGED idx
                               ELSE SendReplayFrom(0)
               ELSE /\ SendReplayFrom(0)
                    /\ UNCHANGED systemPrompt
    /\ UNCHANGED <<API_KEY, messages, fileContent, imageData, replies>>

\* The acknowledgement of the system prompt arrives; on to the replay loop.
systemPromptAcknowledged ==
    /\ pc = "awaitSystem"
    /\ replies' = Append(replies, ReplyText(Len(calls)))
    /\ SendReplayFrom(0)
    /\ UNCHANGED <<API_KEY, messages, fileContent, imageData, chat, systemPrompt>>

\* The reply to a replay turn arrives and is dropped; the loop goes on.
replayAnswered ==
    /\ pc = "awaitReplay"
    /\ replies' = Append(replies, ReplyText(Len(calls)))
    /\ SendReplayFrom(idx + 1)
    /\ UNCHANGED <<API_KEY, messages, fileContent, imageData, chat, systemPrompt>>

\* The reply to the final turn arrives: return response.text().
finalAnswered ==
    /\ pc = "awaitFinal"
    /\ replies' = Append(replies, ReplyText(Len(calls)))
    /\ pc' = "done"
    /\ result' = ReplyText(Len(calls))
    /\ UNCHANGED <<API_KEY, messages, fileContent, imageData, chat, systemPrompt, idx, calls>>

\* chat.sendMessage (or response.text()) throws: the catch block returns.
sendMessageThrows ==
    /\ pc \in {"awaitSystem", "awaitReplay", "awaitFinal"}
    /\ Throw(SendErrorMessage)
    /\ UNCHANGED <<API_KEY, messages, fileContent, imageData, chat, systemPrompt, replies>>

GeminiIdle ==
    /\ API_KEY = ""
    /\ messages = <<>>
    /\ fileContent = Absent
    /\ imageData = NoImage
    /\ pc = "idle"
    /\ chat = "none"
    /\ systemPrompt = ""
    /\ idx = 0
    /\ calls = <<>>
    /\ replies = <<>>
    /\ result = Absent

GeminiInit ==
    /\ API_KEY \in {"", "key"}
    /\ messages \in SeqsUpTo(MessageInputs, MaxMessages)
    /\ fileContent \in FileContentInputs
    /\ imageData \in ImageDataInputs
    /\ pc = "start"
    /\ chat = "none"
    /\ systemPrompt = ""
    /\ idx = 0
    /\ calls = <<>>
    /\ replies = <<>>
    /\ result = Absent

ChatIdle ==
    /\ userId = NoUser
    /\ files = InitFiles
    /\ chats = InitChats
    /\ nextId = NumInitChats + 1
    /\ listCache = NoEntry
    /\ single = [c \in ChatIds |-> NoEntry]
    /\ ops = <<>>
    /\ redirects = 0

vars == <<chatVars, deleteVars, geminiVars>>
Init == ChatInit /\ DeleteIdle /\ GeminiIdle
Next ==
    \/ (chatsQueryFn) /\ UNCHANGED <<deleteVars, geminiVars>>
    \/ (\E c \in ChatIdInputs : singleChatQueryFn(c)) /\ UNCHANGED <<deleteVars, geminiVars>>
    \/ (\E f \in FileIdInputs : startChatWithFile(f)) /\ UNCHANGED <<deleteVars, geminiVars>>
    \/ (\E d \in DataInputs : createChat(d)) /\ UNCHANGED <<deleteVars, geminiVars>>
    \/ (\E u \in UpdateInputs : updateChat(u[1], u[2])) /\ UNCHANGED <<deleteVars, geminiVars>>
    \/ (\E c \in ChatIdInputs : deleteChat(c)) /\ UNCHANGED <<deleteVars, geminiVars>>
    \/ (\E i \in 1..Len(ops), e \in StoreErrors : StoreFail(i, e)) /\ UNCHANGED <<deleteVars, geminiVars>>
    \/ (\E i \in 1..Len(ops) : StoreSelectChats(i)) /\ UNCHANGED <<deleteVars, geminiVars>>
    \/ (\E i \in 1..Len(ops) : StoreSelectChat(i)) /\ UNCHANGED <<deleteVars, geminiVars>>
    \/ (\E i \in 1..Len(ops) : StoreSelectFile(i)) /\ UNCHANGED <<deleteVars, geminiVars>>
    \/ (\E i \in 1..Len(ops) : StoreInsert(i)) /\ UNCHANGED <<deleteVars, geminiVars>>
    \/ (\E i \in 1..Len(ops) : StoreUpdate(i)) /\ UNCHANGED <<deleteVars, geminiVars>>
    \/ (\E i \in 1..Len(ops) : StoreDelete(i)) /\ UNCHANGED <<deleteVars, geminiVars>>
    \/ (\E i \in 1..Len(ops) : createChatWithGemini(i)) /\ UNCHANGED <<deleteVars, geminiVars>>
    \/ (\E i \in 1..Len(ops), e \in ServerErrors : createChatWithGeminiFails(i, e)) /\ UNCHANGED <<deleteVars, geminiVars>>
    \/ (\E i \in 1..Len(ops) : chatsQueryDone(i)) /\ UNCHANGED <<deleteVars, geminiVars>>
    \/ (\E i \in 1..Len(ops) : singleChatQueryDone(i)) /\ UNCHANGED <<deleteVars, geminiVars>>
    \/ (\E i \in 1..Len(ops) : startChatFileChecked(i)) /\ UNCHANGED <<deleteVars, geminiVars>>
    \/ (\E i \in 1..Len(ops) : startChatDone(i)) /\ UNCHANGED <<deleteVars, geminiVars>>
    \/ (\E i \in 1..Len(ops) : createChatDone(i)) /\ UNCHANGED <<deleteVars, geminiVars>>
    \/ (\E i \in 1..Len(ops) : updateChatDone(i)) /\ UNCHANGED <<deleteVars, geminiVars>>
    \/ (\E i \in 1..Len(ops) : deleteChatDone(i) /\ handleDeleteChatFinally(i)) /\ UNCHANGED geminiVars
    \/ (\E c \in ChatIdInputs : handleDeleteChat(c)) /\ UNCHANGED geminiVars
Spec == Init /\ [][Next]_vars

InitGemini == GeminiInit /\ ChatIdle /\ DeleteIdle
NextGemini ==
    \/ sendMessageToGemini /\ UNCHANGED <<chatVars, deleteVars>>
    \/ systemPromptAcknowledged /\ UNCHANGED <<chatVars, deleteVars>>
    \/ replayAnswered /\ UNCHANGED <<chatVars, deleteVars>>
    \/ finalAnswered /\ UNCHANGED <<chatVars, deleteVars>>
    \/ sendMessageThrows /\ UNCHANGED <<chatVars, deleteVars>>
SpecGemini == InitGemini /\ [][NextGemini]_vars
\* Every await of the run settles: the call is answered, or it throws.
SpecGeminiFair == SpecGemini /\ WF_vars(NextGemini)

\* ================================================================== claims
StoreFailed(resp) == resp.error \in StoreErrors
\* The chat with id c that the caller owns, if there is one.
OwnedChat(c) == {r \in chats : r.id = c /\ r.user_id = userId}
\* The columns of a returned row, without what the select embeds.
Columns(row) == [row EXCEPT !.files = Absent]

\* C1: the single-chat fetch that the store answers returns the row with the
\* requested id when the row exists and belongs to the caller, and null in
\* every other case (no such row, or a row of another user); what it returns
\* becomes the single-item cache entry.
C1_FetchSingleIffOwned ==
    [][\A i \in 1..Len(ops) :
        /\ (/\ ops[i].kind = "fetchOne" /\ ops[i].phase = "sent"
            /\ ops'[i].phase = "replied" /\ ~StoreFailed(ops'[i].resp))
           => LET own == OwnedChat(ops[i].chatId)
                  got == singleChatData(ops'[i].resp)
              IN /\ singleChatError(ops'[i].resp) = NoErr
                 /\ own # {} <=> got # <<>>
                 /\ got # <<>> => /\ Len(got) = 1
                                  /\ Columns(got[1]) = Plain(CHOOSE r \in own : TRUE)
                                  /\ got[1].user_id = userId
        /\ (/\ ops[i].kind = "fetchOne" /\ ops[i].phase = "replied"
            /\ ops'[i].phase \in {"success", "error"} /\ ~StoreFailed(ops[i].resp))
           => /\ ops'[i].phase = "success"
              /\ single'[ops[i].chatId] = Entry(singleChatData(ops[i].resp))
      ]_vars

\* C1 witness: a fetch of another user's chat has returned null while that
\* chat is in the store, and a fetch of the caller's chat has returned it.
C1_Witness ==
    \E i, j \in 1..Len(ops) :
        /\ ops[i].kind = "fetchOne" /\ ops[i].chatId = ChatId(3) /\ ops[i].phase = "success"
        /\ ops[i].resp.data = <<>>
        /\ \E r \in chats : r.id = ChatId(3) /\ r.user_id = "u2"
        /\ ops[j].kind = "fetchOne" /\ ops[j].chatId = ChatId(1) /\ ops[j].phase = "success"
        /\ ops[j].resp.data # <<>>

OtherOwnsFile(f) == \E r \in files : r.id = f /\ r.user_id # userId

\* C2: a start-chat call with the id of a file row of another user never
\* reaches createChatWithGemini, sends no write, and no step of it changes
\* the chats table or the chat list cache; when its file check is answered
\* it fails with FILE_ACCESS_DENIED.
C2_ForeignFileDenied ==
    [][\A i \in 1..Len(ops') :
        (ops'[i].kind = "start" /\ OtherOwnsFile(ops'[i].fileId))
        => /\ ops'[i].phase \in {"sent", "replied", "error"}
           /\ ops'[i].writes = 0
           /\ (i > Len(ops) \/ ops'[i] # ops[i])
              => chats' = chats /\ listCache' = listCache
           /\ (/\ i <= Len(ops) /\ ops[i].phase = "replied" /\ ~StoreFailed(ops[i].resp)
               /\ ops'[i] # ops[i])
              => ops'[i].phase = "error" /\ ops'[i].err.code = "FILE_ACCESS_DENIED"
      ]_vars

\* C2 witness: a start-chat call with another user's file f2 has failed with
\* FILE_ACCESS_DENIED.
C2_Witness ==
    \E i \in 1..Len(ops) :
        /\ ops[i].kind = "start" /\ ops[i].fileId = "f2" /\ userId = "u1"
        /\ ops[i].phase = "error" /\ ops[i].err.code = "FILE_ACCESS_DENIED"

\* C3: every chat row that references a file references a file of the
\* chat's owner.
C3_ChatFileSameOwner ==
    \A r \in chats :
        r.file_id # Null => \E f \in files : f.id = r.file_id /\ f.user_id = r.user_id

\* C4: no step changes or removes a chat row of another user, and every row
\* that appears under a new id belongs to the caller.
C4_WritesOnlyOwnRows ==
    [][/\ \A r \in chats : r.user_id # userId => r \in chats'
       /\ \A r \in chats' : (\A q \in chats : q.id # r.id) => r.user_id = userId
      ]_vars

\* C4 witness: a delete and an update aimed at another user's chat c3 have
\* both been answered by the store, a chat has been created, and c3 is as it was.
C4_Witness ==
    /\ \E i \in 1..Len(ops) :
          /\ ops[i].kind \in {"delete", "update"} /\ ops[i].chatId = ChatId(3)
          /\ ops[i].phase \in {"success", "error"} /\ ~StoreFailed(ops[i].resp)
          /\ ops[i].reqs = 1
    /\ \E i \in 1..Len(ops) : ops[i].kind = "create" /\ ops[i].phase = "success"
    /\ \E r \in chats : r.id = ChatId(3) /\ r \in InitChats
    /\ nextId = NumInitChats + 2

\* ------------------------------------------------------------ Gemini client
HistoryABC ==
    << [role |-> "user", content |-> "A"],
       [role |-> "model", content |-> "B"],
       [role |-> "user", content |-> "C"] >>
\* The run has returned the reply to its last call (no call threw).
Returned == pc = "done" /\ calls # <<>> /\ Len(replies) = Len(calls)
ErrorShaped(text) ==
    LET prefix == "I'm sorry, I encountered an error while processing your request. "
    IN Len(text) >= Len(prefix) /\ SubSeq(text, 1, Len(prefix)) = prefix

\* C5, as claimed: on the history A, B, C without file content a run that
\* returns has made exactly two calls, a replay of "A" and the final "C",
\* and returns the reply to "C".
C5_TwoCalls ==
    (messages = HistoryABC /\ ~Truthy(fileContent) /\ Returned)
    => /\ Len(calls) = 2
       /\ calls[1].parts = <<TextPart("A")>>
       /\ calls[2].parts[1].text = "C"
       /\ result = replies[2]

\* C5, amended: on the history A, B, C without file content a run that
\* returns has made exactly three calls: "A" and "B" replayed as text turns,
\* in that order, then the final "C"; it returns the reply to "C" only.
C5_ThreeCalls ==
    (messages = HistoryABC /\ ~Truthy(fileContent) /\ Returned)
    => /\ Len(calls) = 3
       /\ calls[1].parts = <<TextPart("A")>>
       /\ calls[2].parts = <<TextPart("B")>>
       /\ calls[3].parts[1].text = "C"
       /\ result = replies[3]
       /\ result \notin {replies[1], replies[2]}

\* C5 witness: such a run has returned.
C5_Witness ==
    /\ messages = HistoryABC /\ fileContent = Absent /\ imageData = NoImage
    /\ Returned /\ result = ReplyText(3)

\* C8: without an API key the run creates no session and makes no call, and
\* once it has run it has returned the error reply about the key.
C8_NoKeyNoCall ==
    API_KEY = ""
    => /\ chat = "none"
       /\ calls = <<>>
       /\ replies = <<>>
       /\ pc \in {"idle", "start", "done"}
       /\ pc = "done" => /\ ErrorShaped(result)
                         /\ Includes(result, "Gemini API key is not configured")

\* C8 witness: a run without a key, with messages, file content and an
\* image, has returned.
C8_Witness ==
    /\ API_KEY = "" /\ pc = "done"
    /\ messages # <<>> /\ Truthy(fileContent) /\ imageData # NoImage

HasImage(parts) == \E k \in 1..Len(parts) : parts[k].inlineData # NoImage

\* C9: with file content IMAGE_FILE, an image and a non-empty history, the
\* k-th call is the k-th message: no system-instruction turn comes first,
\* every turn before the last is its text alone, and the last turn is its
\* text with the image (base64 data and MIME type) after it.
C9_ImageOnFinalTurnOnly ==
    (fileContent = "IMAGE_FILE" /\ imageData # NoImage /\ messages # <<>>)
    => /\ systemPrompt = ""
       /\ Len(calls) <= Len(messages)
       /\ \A k \in 1..Len(calls) :
             /\ calls[k].parts[1] = TextPart(messages[k].content)
             /\ k < Len(messages) => Len(calls[k].parts) = 1 /\ ~HasImage(calls[k].parts)
             /\ k = Len(messages)
                => /\ Len(calls[k].parts) = 2
                   /\ calls[k].parts[2].text = Absent
                   /\ calls[k].parts[2].inlineData =
                        [buffer |-> Base64(imageData.buffer), mimeType |-> imageData.mimeType]
       /\ Returned => Len(calls) = Len(messages)

\* C9 witness: such a run, whose last message mentions YouTube, has returned
\* after three calls.
C9_Witness ==
    /\ fileContent = "IMAGE_FILE" /\ imageData # NoImage
    /\ Len(messages) = 3 /\ Includes(messages[3].content, "YouTube")
    /\ Returned /\ Len(calls) = 3 /\ HasImage(calls[3].parts)

\* The calls a run on these arguments makes when nothing throws: the system
\* turn if a prompt was chosen, every message but the last as a text turn,
\* the last message as the final turn.
ExpectedCalls ==
    LET n == Len(messages)
    IN (IF systemPrompt # ""
        THEN <<[kind |-> "system", index |-> 0, parts |-> SystemParts(systemPrompt)]>>
        ELSE <<>>)
       \o [k \in 1..(n - 1) |->
             [kind |-> "replay", index |-> k - 1, parts |-> <<TextPart(messages[k].content)>>]]
       \o <<[kind |-> "final", index |-> n - 1, parts |-> FinalParts(messages[n], imageData)]>>

\* C11: on a history of n >= 1 messages the calls made so far are the first
\* calls of: the system turn (if chosen), messages 0..n-2 in index order one
\* call each whatever the role, message n-1 as the final call; a call is made
\* only once every earlier call has its reply; a run that returns the final
\* reply has made all of them, n-1 of them replay calls.
C11_CallsInOriginalOrder ==
    messages # <<>>
    => /\ Len(calls) <= Len(ExpectedCalls)
       /\ calls = SubSeq(ExpectedCalls, 1, Len(calls))
       /\ Len(replies) <= Len(calls) /\ Len(calls) <= Len(replies) + 1
       /\ Returned
          => /\ calls = ExpectedCalls
             /\ Cardinality({k \in 1..Len(calls) : calls[k].kind = "replay"})
                  = Len(messages) - 1

\* C11 witness: a run on three messages of mixed roles with a system prompt
\* has returned after four calls.
C11_Witness ==
    /\ Len(messages) = 3 /\ messages[2].role = "model" /\ messages[1] # messages[2]
    /\ systemPrompt # "" /\ Returned /\ Len(calls) = 4
    /\ calls[1].kind = "system" /\ calls[4].kind = "final"

ErrorMessages == {"Gemini API key is not configured", TypeErrorMessage, SendErrorMessage}

\* C12: every run ends, and ends with a string.  The step that ends it is
\* either the reply to the final turn, which is then the string returned, or
\* a step that raised: that step and every later one make no call, and the
\* string returned is the error reply around the message raised (the missing
\* key before any call, the read of the last message of an empty history, or
\* the failure of the call under way).  Nothing changes after the return.
C12_AlwaysReturnsAString ==
    /\ [][/\ (pc # "done" /\ pc' = "done")
             => \/ /\ pc = "awaitFinal" /\ calls' = calls
                   /\ replies' = Append(replies, ReplyText(Len(calls)))
                   /\ calls[Len(calls)].kind = "final"
                   /\ result' = replies'[Len(calls)]
                \/ /\ calls' = calls
                   /\ \E m \in ErrorMessages :
                         /\ result' = ErrorReply(m)
                         /\ Includes(result', m)
                         /\ m = "Gemini API key is not configured" <=> API_KEY = ""
                         /\ m = SendErrorMessage <=> (pc # "start" /\ replies' = replies)
          /\ pc = "done" => /\ calls' = calls /\ result' = result /\ pc' = "done"
                            /\ result # Absent
         ]_vars
    /\ <>(pc = "done" /\ result # Absent)

\* C12 witness: runs have ended by a replay call that failed after an
\* answered system turn, leaving the later messages unsent.
C12_Witness ==
    /\ pc = "done" /\ result = ErrorReply(SendErrorMessage)
    /\ Len(messages) = 3 /\ Len(calls) = 2 /\ Len(replies) = 1
    /\ calls[1].kind = "system" /\ calls[2].kind = "replay"

\* --------------------------------------------------------- errors and order
OwnershipCodes == {"FILE_ACCESS_DENIED", "FILE_NOT_FOUND"}
\* The call i ends with an ownership error.
OwnershipError(o) == o.kind = "start" /\ o.phase = "error" /\ o.err.code \in OwnershipCodes

\* C13, as claimed: a start-chat call that has ended with FILE_ACCESS_DENIED
\* or FILE_NOT_FOUND has sent no request to the store.
C13_OwnershipErrorNoRequest ==
    \A i \in 1..Len(ops) : OwnershipError(ops[i]) => ops[i].reqs = 0

\* C13, amended: a start-chat call ends with FILE_ACCESS_DENIED or
\* FILE_NOT_FOUND only at the answer to its one request, the read of the
\* files row with the given id; it has sent that request and no other, no
\* write among them, and the step leaves the store as it is.
C13_OwnershipErrorAfterFileRead ==
    [][\A i \in 1..Len(ops') :
        (OwnershipError(ops'[i]) /\ (i > Len(ops) \/ ~OwnershipError(ops[i])))
        => /\ i <= Len(ops)
           /\ ops[i].phase = "replied"
           /\ ops[i].resp = SelectFile(files, ops[i].fileId)
           /\ ops'[i].reqs = 1 /\ ops'[i].writes = 0
           /\ chats' = chats /\ files' = files /\ nextId' = nextId
           /\ ops'[i].err.code = "FILE_NOT_FOUND" <=> (\A f \in files : f.id # ops[i].fileId)
      ]_vars

\* C13 witness: one call has ended with FILE_ACCESS_DENIED and another with
\* FILE_NOT_FOUND, each after one request.
C13_Witness ==
    \E i, j \in 1..Len(ops) :
        /\ OwnershipError(ops[i]) /\ ops[i].err.code = "FILE_ACCESS_DENIED" /\ ops[i].reqs = 1
        /\ OwnershipError(ops[j]) /\ ops[j].err.code = "FILE_NOT_FOUND" /\ ops[j].reqs = 1

\* The bad-input kind of a call with these arguments, "" when they are valid.
BadInputKind(o) ==
    IF userId = NoUser THEN "NO_USER_ID"
    ELSE IF o.kind \in {"fetchOne", "update", "delete"} /\ o.chatId = "" THEN "INVALID_CHAT_ID"
    ELSE IF o.kind = "start" /\ o.fileId \in {"", " "} THEN "INVALID_FILE_ID"
    ELSE IF o.kind \in {"create", "update"} /\ o.data = NoData THEN "INVALID_DATA"
    ELSE ""

\* C14: a query or mutation called without a user id, with an empty chat id
\* or a blank file id, or with an empty payload fails at the call with the
\* bad-input kind of the first check that fails, having sent no request; the
\* step changes neither the store nor the cache, and nothing is sent for the
\* call later.  A call with valid input fails with none of these kinds at the
\* call.
C14_ValidationBeforeNetwork ==
    [][/\ Len(ops') > Len(ops)
          => LET o == ops'[Len(ops')]
             IN /\ BadInputKind(o) # ""
                   => /\ o.phase = "error" /\ o.err.code = BadInputKind(o)
                      /\ o.reqs = 0 /\ o.writes = 0
                      /\ chats' = chats /\ files' = files /\ nextId' = nextId
                      /\ listCache' = listCache /\ single' = single
                /\ BadInputKind(o) = "" => o.phase = "sent" /\ o.reqs = 1
       /\ \A i \in 1..Len(ops) : (ops[i].phase = "error" /\ ops[i].reqs = 0) => ops'[i] = ops[i]
      ]_vars

\* C14 witness: an update with an empty chat id and a create with an empty
\* payload have failed with their kinds; by then the store is as at the start.
C14_Witness ==
    /\ userId = "u1" /\ chats = InitChats
    /\ \E i, j \in 1..Len(ops) :
          /\ ops[i].kind = "update" /\ ops[i].chatId = "" /\ ops[i].err.code = "INVALID_CHAT_ID"
          /\ ops[i].reqs = 0
          /\ ops[j].kind = "create" /\ ops[j].data = NoData /\ ops[j].err.code = "INVALID_DATA"
          /\ ops[j].reqs = 0

\* The error is an authentication failure: no signed-in user, an expired
\* session token, a missing refresh token, or a refused server action.
AuthFailure(e) ==
    \/ e.code = "NO_USER_ID"
    \/ Includes(e.message, "JWT expired")
    \/ Includes(e.message, "refresh_token_not_found")
    \/ Includes(e.message, "Authentication required")

\* C15: whenever a query or mutation fails, at the call or at a response, an
\* authentication failure makes one redirect to /login and is reported with
\* kind AUTH_EXPIRED, and any other failure makes no redirect.
C15_AuthFailureRedirects ==
    [][\A i \in 1..Len(ops') :
        (ops'[i].phase = "error" /\ (i > Len(ops) \/ ops[i].phase # "error"))
        => IF AuthFailure(ops'[i].err)
           THEN redirects' = redirects + 1 /\ ops'[i].err.code = "AUTH_EXPIRED"
           ELSE redirects' = redirects
      ]_vars

\* ------------------------------------------------------------ cache races
\* The elements of the list cache with id c are all the row.
ListHolds(list, c, row) ==
    \A k \in 1..Len(list.data) : list.data[k].id = c => list.data[k] = row

\* C6, as claimed: once two updates of the same chat have both succeeded,
\* the single-item entry and the list element hold the result of the one
\* called second.
C6_SecondIssuedWins ==
    \A i, j \in 1..Len(ops) :
        (/\ i < j
         /\ ops[i].kind = "update" /\ ops[j].kind = "update"
         /\ ops[i].chatId = ops[j].chatId
         /\ ops[i].phase = "success" /\ ops[j].phase = "success")
        => /\ single[ops[j].chatId] = Entry(ops[j].resp.data)
           /\ ListHolds(listCache, ops[j].chatId, ops[j].resp.data[1])

\* C6, amended: when the response of an update arrives after another update
\* of the same chat has succeeded, the single-item entry and the list
\* element hold the result of the update whose response arrived last,
\* whichever was called first.
C6_LastArrivedWins ==
    [][\A i \in 1..Len(ops) :
        (/\ ops[i].kind = "update" /\ ops[i].phase = "replied" /\ ops'[i].phase = "success"
         /\ \E j \in 1..Len(ops) :
               /\ j # i /\ ops[j].kind = "update" /\ ops[j].chatId = ops[i].chatId
               /\ ops[j].phase = "success")
        => /\ single'[ops[i].chatId] = Entry(ops[i].resp.data)
           /\ ListHolds(listCache', ops[i].chatId, ops[i].resp.data[1])
      ]_vars

\* C6 witness: two updates of c1 with different results have succeeded, the
\* list was cached, and the cache holds the result of the one called first.
C6_Witness ==
    /\ Len(ops) = 2
    /\ ops[1].kind = "update" /\ ops[2].kind = "update"
    /\ ops[1].chatId = ChatId(1) /\ ops[2].chatId = ChatId(1)
    /\ ops[1].phase = "success" /\ ops[2].phase = "success"
    /\ ops[1].resp.data # ops[2].resp.data
    /\ single[ChatId(1)] = Entry(ops[1].resp.data)
    /\ \E k \in 1..Len(listCache.data) : listCache.data[k] = ops[1].resp.data[1]

\* C7: when a delete of chat c succeeds, right after it the single-item
\* cache has no entry for c, the list cache has no element with id c, and a
\* single-chat fetch of c by the caller on the store as it is returns null.
C7_DeleteRemovesEverywhere ==
    [][\A i \in 1..Len(ops) :
        (ops[i].kind = "delete" /\ ops[i].phase = "replied" /\ ops'[i].phase = "success")
        => LET c == ops[i].chatId
               refetch == SelectChat(chats', files', userId', c)
           IN /\ single'[c] = NoEntry
              /\ \A k \in 1..Len(listCache'.data) : listCache'.data[k].id # c
              /\ singleChatError(refetch) = NoErr
              /\ singleChatData(refetch) = <<>>
      ]_vars

\* C7 witness: a delete of c1, which was in both caches, has succeeded; the
\* list cache keeps the caller's other chat.
C7_Witness ==
    /\ ops # <<>>
    /\ ops[1].kind = "delete" /\ ops[1].chatId = ChatId(1) /\ ops[1].phase = "success"
    /\ listCache.present /\ Len(listCache.data) = 1 /\ listCache.data[1].id = ChatId(2)
    /\ single[ChatId(1)] = NoEntry
    /\ \A r \in chats : r.id # ChatId(1)

\* C16: the cached chat list is ordered most-recent-first: of two adjacent
\* elements the earlier has a creation timestamp greater than or equal to the
\* later one's.
C16_ListMostRecentFirst ==
    \A k \in 1..(Len(listCache.data) - 1) :
        listCache.data[k].created_at >= listCache.data[k + 1].created_at

\* C20: the cached chat list holds at most one element per chat id.
C20_ListIdsDistinct ==
    \A k, l \in 1..Len(listCache.data) :
        listCache.data[k].id = listCache.data[l].id => k = l

\* C17: at the success of an update of chat c the single-item entry of c
\* becomes the returned row; the list cache is there after the step only if
\* it was there before, with the same length, the returned row at every
\* element with id c and every other element as it was.
C17_UpdateReplacesInPlace ==
    [][\A i \in 1..Len(ops) :
        (ops[i].kind = "update" /\ ops[i].phase = "replied" /\ ops'[i].phase = "success")
        => LET row == ops[i].resp.data[1]
           IN /\ single'[row.id] = Entry(<<row>>)
              /\ \A c \in ChatIds \ {row.id} : single'[c] = single[c]
              /\ listCache'.present = listCache.present
              /\ Len(listCache'.data) = Len(listCache.data)
              /\ \A k \in 1..Len(listCache.data) :
                    listCache'.data[k] =
                        IF listCache.data[k].id = row.id THEN row ELSE listCache.data[k]
      ]_vars

Mutations == {"start", "create", "update", "delete"}

\* C18: a mutation goes from its call through pending to success or error
\* and stays there: it sends at most one write, a step of it changes the
\* cache only when it is the step to success, and a step of it that is not
\* (a pending step, the step to error) leaves the list cache and the
\* single-item cache as they are; once ended it sends nothing more.
C18_MutationAttemptedOnce ==
    [][\A i \in 1..Len(ops') :
        (ops'[i].kind \in Mutations /\ (i > Len(ops) \/ ops'[i] # ops[i]))
        => /\ ops'[i].writes <= 1
           /\ ops'[i].phase # "success" => listCache' = listCache /\ single' = single
           /\ ops'[i].phase = "success"
              => /\ i <= Len(ops) /\ ops[i].phase \in {"replied", "replied2"}
                 /\ ops[i].resp.error = NoError
           /\ i <= Len(ops) => /\ ops[i].phase \notin {"success", "error"}
                               /\ ops'[i].reqs >= ops[i].reqs
                               /\ ops'[i].writes >= ops[i].writes
      ]_vars

\* C18 witness: with the list cached, an update whose request the store
\* refused has ended in error after one write request, and the cached list is
\* the one of the start; another mutation has succeeded after one write.
C18_Witness ==
    \E i, j \in 1..Len(ops) :
        /\ ops[i].kind = "update" /\ ops[i].phase = "error" /\ StoreFailed(ops[i].resp)
        /\ ops[i].writes = 1
        /\ ops[j].kind = "delete" /\ ops[j].phase = "success" /\ ops[j].writes = 1
        /\ ops[j].chatId = MissingId
        /\ listCache = Entry(SelectChats(InitChats, InitFiles, "u1").data)

\* C19: once a delete of chat c has succeeded, the single-item cache has no
\* entry for c and the list cache has no element with id c, in every later
\* state.
C19_DeletedNeverReappears ==
    \A i \in 1..Len(ops) :
        (ops[i].kind = "delete" /\ ops[i].phase = "success")
        => /\ single[ops[i].chatId] = NoEntry
           /\ \A k \in 1..Len(listCache.data) : listCache.data[k].id # ops[i].chatId

\* ---------------------------------------------------------- deletingId
\* The deletes called by handleDeleteChat that have not ended.
DeletesInFlight == {i \in handled : Pending(ops[i])}

\* C21: while a delete called by handleDeleteChat is in flight, deletingId is
\* the id of a chat whose delete is in flight, and deletingId is null exactly
\* when no such delete is in flight.
C21_DeletingIdTracksDeletes ==
    /\ DeletesInFlight # {}
       => /\ deletingId # Null
          /\ \E i \in DeletesInFlight : ops[i].chatId = deletingId
    /\ deletingId = Null <=> DeletesInFlight = {}

\* C22: when the single-item cache holds a chat for id c and the list cache
\* holds an element with id c, the two are equal, and getChatById(c) is that
\* chat whether it comes from the single-item entry or from the list.
C22_SingleAndListAgree ==
    \A c \in ChatIds :
        (cachedChat(c) # <<>> /\ findInChatsQueryData(c) # <<>>)
        => /\ cachedChat(c) = findInChatsQueryData(c)
           /\ getChatById(c) = findInChatsQueryData(c)

\* ------------------------------------------------------ other users' rows
OwnChats == {r \in chats : r.user_id = userId}
OwnFiles == {f \in files : f.user_id = userId}

\* C10: what a fetch, an update, a delete or a start-chat call gives the
\* caller is what it would give on the store without the chat and file rows
\* of other users.
C10_OutcomeIgnoresOthersRows ==
    [][\A i \in 1..Len(ops) :
        LET o == ops[i]
            n == ops'[i]
        IN /\ (o.phase = "sent" /\ n.phase = "replied" /\ ~StoreFailed(n.resp))
              => CASE o.kind = "fetchList" ->
                        n.resp = SelectChats(OwnChats, OwnFiles, userId)
                   [] o.kind = "fetchOne" ->
                        LET alone == SelectChat(OwnChats, OwnFiles, userId, o.chatId)
                        IN /\ singleChatError(n.resp) = singleChatError(alone)
                           /\ singleChatData(n.resp) = singleChatData(alone)
                   [] o.kind = "update" ->
                        LET alone == UpdateChat(OwnChats, OwnFiles, userId, o.chatId, o.data).resp
                        IN /\ updateChatError(n.resp) = updateChatError(alone)
                           /\ n.resp.data = alone.data
                   [] o.kind = "delete" ->
                        thrownFor(n.resp) = thrownFor(DeleteChat(OwnChats, userId, o.chatId).resp)
                   [] OTHER -> TRUE
           /\ (/\ o.kind = "start" /\ o.phase = "replied" /\ ~StoreFailed(o.resp)
               /\ n.phase \in {"error", "sent2"})
              => n.err = fileCheckError(SelectFile(OwnFiles, o.fileId), userId)
      ]_vars

====
